---- MODULE Spec2Model ----
(***************************************************************************)
(* Evacuation simulation of mesacat: EvacuationModel (model.py) and        *)
(* EvacuationAgent (agent.py).                                             *)
(*                                                                         *)
(* Distances are exact integers in units of one third of a metre, so that  *)
(* the distance covered in one step, speed/60/60*10*1000 m = 25/3 m, is    *)
(* the integer 25.  route_index is 0-based as in the source; the node at   *)
(* Python position i of a route is route[i + 1] here.                      *)
(* The reporting attributes lat, lon and highway (update_location) do not  *)
(* influence movement, routing or status and are left out of the state.    *)
(***************************************************************************)
EXTENDS Integers, Sequences, FiniteSets, TLC

\* ------------------------------------------------------------------ bounds
NumAgents == 3
MaxSteps == 7
MaxCapacity == 2
\* The nested calls the interpreter allows before it raises RecursionError
\* (sys.getrecursionlimit(), 1000 unless changed)
RecursionLimit == 3

\* ------------------------------------------------------- program constants
\* EvacuationAgent.__init__: self.speed = 3 (km/h)
Speed == 3
\* EvacuationAgent.__init__: self.reroute_count = -1
InitialRerouteCount == -1
\* step(): speed / 60 / 60 * 10 * 1000 metres in ten seconds, times 3 units per metre
DistancePerStep == (Speed * 10 * 1000 * 3) \div (60 * 60)

\* ------------------------------------------------------------ small helpers
Range(s) == {s[i] : i \in DOMAIN s}

Min(a, b) == IF a <= b THEN a ELSE b

RECURSIVE SumOver(_, _)
SumOver(S, f) ==
    IF S = {} THEN 0
    ELSE LET x == CHOOSE y \in S : TRUE IN f[x] + SumOver(S \ {x}, f)

\* s without the entries equal to x, order kept
\* (target_nodes[target_nodes.values != pos])
RemoveValue(s, x) == SelectSeq(s, LAMBDA y : y # x)

\* --------------------------------------------------------------- networks
\* A network is the undirected multigraph G handed to EvacuationModel after the
\* target nodes have been attached (zero-length edges): nodes in the order of
\* model.nodes, edges with their networkx key, and the list target_nodes.
Edge(u, v, k, l) == [u |-> u, v |-> v, key |-> k, length |-> l]

\* A -B -C -X, the target X attached by a zero-length edge; A and B are joined by
\* two parallel edges, and the one with key 0 is the longer one.
Network1 ==
    [nodes   |-> <<"A", "B", "C", "X">>,
     edges   |-> {Edge("A", "B", 0, 40), Edge("A", "B", 1, 25),
                  Edge("B", "C", 0, 10), Edge("C", "X", 0, 0)},
     targets |-> <<"X">>]

\* X -A -B -C -Y: two targets in one component, both behind zero-length edges.
Network2 ==
    [nodes   |-> <<"A", "B", "C", "X", "Y">>,
     edges   |-> {Edge("A", "X", 0, 0), Edge("A", "B", 0, 10),
                  Edge("B", "C", 0, 40), Edge("C", "Y", 0, 0)},
     targets |-> <<"X", "Y">>]

\* Three components: A -X, D -Y and the isolated node E.
Network3 ==
    [nodes   |-> <<"A", "D", "E", "X", "Y">>,
     edges   |-> {Edge("A", "X", 0, 10), Edge("D", "Y", 0, 30)},
     targets |-> <<"Y", "X">>]

\* A -H with three targets X, Y, Z attached to H by zero-length edges, so that an
\* agent can try several targets within one step.
Network4 ==
    [nodes   |-> <<"A", "H", "X", "Y", "Z">>,
     edges   |-> {Edge("A", "H", 0, 10), Edge("H", "X", 0, 0),
                  Edge("H", "Y", 0, 0), Edge("H", "Z", 0, 0)},
     targets |-> <<"X", "Y", "Z">>]

Networks == <<Network1, Network2, Network3, Network4>>

NodeSet(g) == Range(Networks[g].nodes)

\* Position of node n in model.nodes (nodes.index.get_loc)
get_loc(g, n) == CHOOSE i \in DOMAIN Networks[g].nodes : Networks[g].nodes[i] = n

EdgesBetween(g, u, v) ==
    {e \in Networks[g].edges : (e.u = u /\ e.v = v) \/ (e.u = v /\ e.v = u)}

\* G.get_edge_data(u, v)[0]['length']: the edge with key 0 among the parallel ones
get_edge_data_0(g, u, v) ==
    (CHOOSE e \in EdgesBetween(g, u, v) : e.key = 0).length

\* The weight igraph's searches see between two adjacent vertices: every parallel
\* edge is an edge of the igraph, so the lightest one decides.
Weight(g, u, v) ==
    LET ls == {e.length : e \in EdgesBetween(g, u, v)}
    IN  CHOOSE l \in ls : \A m \in ls : l <= m

Adjacent(g, u, v) == EdgesBetween(g, u, v) # {}

\* Simple paths from the end of p to t that extend p
RECURSIVE Extend(_, _, _)
Extend(g, p, t) ==
    LET last == p[Len(p)]
    IN  IF last = t THEN {p}
        ELSE UNION { Extend(g, Append(p, n), t) :
                     n \in {m \in NodeSet(g) : m \notin Range(p) /\ Adjacent(g, last, m)} }

SimplePaths(g, s, t) == Extend(g, <<s>>, t)

RECURSIVE PathLength(_, _)
PathLength(g, p) ==
    IF Len(p) <= 1 THEN 0
    ELSE Weight(g, p[1], p[2]) + PathLength(g, Tail(p))

\* igraph.get_shortest_paths(s, t, weights='length')[0]: the shortest path, the
\* empty path when t cannot be reached from s.  The networks above have a unique
\* shortest simple path between any two connected nodes, so the choice among
\* equally short paths never arises.
get_shortest_paths(g, s, t) ==
    LET ps == SimplePaths(g, s, t)
    IN  IF ps = {} THEN <<>>
        ELSE CHOOSE p \in ps : \A q \in ps : PathLength(g, p) <= PathLength(g, q)

Reachable(g, s, t) == get_shortest_paths(g, s, t) # <<>>

\* One entry of shortest_paths_dijkstra(source, target, weights='length'),
\* defined for reachable targets (igraph reports inf for the others)
shortest_paths_dijkstra(g, s, t) == PathLength(g, get_shortest_paths(g, s, t))

\* np.argmin(target_distances): the first position holding the least distance;
\* when every distance is inf that is position 0 (here 1)
argmin(g, s, tn) ==
    LET reach == {i \in DOMAIN tn : Reachable(g, s, tn[i])}
    IN  IF reach = {} THEN 1
        ELSE CHOOSE i \in reach :
                \A j \in reach :
                    \/ shortest_paths_dijkstra(g, s, tn[i]) < shortest_paths_dijkstra(g, s, tn[j])
                    \/ /\ shortest_paths_dijkstra(g, s, tn[i]) = shortest_paths_dijkstra(g, s, tn[j])
                       /\ i <= j

VARIABLES
    G,                \* index of the network in use (model.G, model.igraph)
    target_capacity,  \* model.target_capacity
    max_steps,        \* the argument of run(steps)
    start,            \* the node each agent was placed on by __init__
    agents,           \* the EvacuationAgent objects of model.schedule
    target_nodes,     \* model.target_nodes
    pc,               \* where run() is: "constructed", "running", "done", "failed"
    steps,            \* model.schedule.steps, the number of completed steps
    model_vars,       \* data_collector.model_vars['evacuated']
    error,            \* the exception that ended run(), "none" without one
    order,            \* the agents activated so far in the current (or last) step
    tick_log,         \* the arrivals at route ends in the current (or last) step
    first_terminal,   \* the first step after which every agent was evacuated or
                      \* stranded, 0 while there was none
    call,             \* the call of EvacuationAgent.step under way, with the number
                      \* of loop tests it has made, when the loop is followed one
                      \* iteration at a time
    proto             \* the construction of the prototype model of main.py: its
                      \* graph and target node, and the agent being placed and routed

vars == <<G, target_capacity, max_steps, start, agents, target_nodes, pc, steps,
          model_vars, error, order, tick_log, first_terminal, call, proto>>

Agents == 1..NumAgents

\* ------------------------------------------------------------------ agent.py
\* EvacuationAgent.__init__
NewAgent ==
    [pos |-> "", route |-> <<>>, route_index |-> 0, distance_along_edge |-> 0,
     evacuated |-> FALSE, stranded |-> FALSE, reroute_count |-> InitialRerouteCount]

\* NetworkGrid.place_agent / move_agent: the cell of an agent is its pos
place_agent(ag, n) == [ag EXCEPT !.pos = n]

\* update_route without the count of the new route
update_route_uncounted(ag, tn) ==
    IF Len(tn) = 0
    THEN [ag EXCEPT !.stranded = TRUE]
    ELSE LET target == tn[argmin(G, ag.pos, tn)]
             path   == get_shortest_paths(G, ag.pos, target)
         IN  [ag EXCEPT !.route = path, !.route_index = 0]

\* update_route keeping the route_index of the old route
update_route_keeps_index(ag, tn) ==
    IF Len(tn) = 0
    THEN [ag EXCEPT !.stranded = TRUE]
    ELSE LET target == tn[argmin(G, ag.pos, tn)]
             path   == get_shortest_paths(G, ag.pos, target)
         IN  [ag EXCEPT !.route = path, !.reroute_count = @ + 1]

\* EvacuationAgent.update_route, with model.target_nodes = tn
update_route(ag, tn) ==
    IF Len(tn) = 0
    THEN [ag EXCEPT !.stranded = TRUE]
    ELSE LET target == tn[argmin(G, ag.pos, tn)]
             path   == get_shortest_paths(G, ag.pos, target)
         IN  [ag EXCEPT !.route = path,
                        !.route_index = 0,
                        !.reroute_count = @ + 1]

\* self.route[self.route_index + 1] exists; distance_to_next_node raises
\* IndexError otherwise
next_node_exists(ag) == ag.route_index + 2 <= Len(ag.route)

\* distance_to_next_node without the distance already covered on the edge
distance_to_next_node_whole_edge(ag) ==
    get_edge_data_0(G, ag.route[ag.route_index + 1], ag.route[ag.route_index + 2])

\* EvacuationAgent.distance_to_next_node
distance_to_next_node(ag) ==
    get_edge_data_0(G, ag.route[ag.route_index + 1], ag.route[ag.route_index + 2])
        - ag.distance_along_edge

\* len(model.grid.get_cell_list_contents([n])) once agent a has been moved to n
get_cell_list_contents(a, n) ==
    Cardinality({b \in Agents \ {a} : agents[b].pos = n}) + 1

\* The agents other than a that are evacuated at node n
EvacuatedAt(a, n) ==
    Cardinality({b \in Agents \ {a} : agents[b].pos = n /\ agents[b].evacuated})

\* The capacity test letting one agent too many in
target_at_capacity_lenient(occupants) == occupants > target_capacity + 1

\* "If target is at capacity"
target_at_capacity(occupants) == occupants > target_capacity

\* The early return of step() taken by evacuated agents only
is_terminal_evacuated_only(ag) == ag.evacuated

\* "if self.evacuated or self.stranded: return"
is_terminal(ag) == ag.evacuated \/ ag.stranded

\* What agent a found and did on arriving at the last node of its route: ag is
\* the agent on arrival, after the agent once the branch taken has run, tn the
\* value of model.target_nodes it leaves
Arrival(a, ag, after, tn, admitted) ==
    [agent |-> a, node |-> ag.pos,
     occupants |-> get_cell_list_contents(a, ag.pos),
     evacuated_before |-> EvacuatedAt(a, ag.pos),
     admitted |-> admitted, candidates |-> tn,
     reroute_count_before |-> ag.reroute_count,
     reroute_count_after |-> after.reroute_count,
     route_after |-> after.route]

\* The state of one call of EvacuationAgent.step: the agent, model.target_nodes,
\* the local distance_to_travel, the exception raised ("none" without one), the
\* arrivals so far, and whether the call has returned or raised
StepState(ag, tn, dtt, err, ev, done) ==
    [agent |-> ag, target_nodes |-> tn, distance_to_travel |-> dtt, error |-> err,
     events |-> ev, done |-> done]

\* The rejection branch without the "else" before "self.evacuated = True"
target_full_falls_through(a, st) ==
    LET tn2      == RemoveValue(st.target_nodes, st.agent.pos)
        rerouted == update_route(st.agent, tn2)
    IN  [st EXCEPT !.agent = [rerouted EXCEPT !.evacuated = TRUE],
                   !.target_nodes = tn2,
                   !.events = Append(@, Arrival(a, st.agent, rerouted, tn2, FALSE)),
                   !.done = TRUE]

\* "If target is at capacity": the target is taken from model.target_nodes and the
\* route updated; the call returns if that left the agent stranded, and goes on
\* with "self.distance_along_edge = 0" otherwise
target_full(a, st) ==
    LET tn2      == RemoveValue(st.target_nodes, st.agent.pos)
        rerouted == update_route(st.agent, tn2)
    IN  [st EXCEPT !.agent = IF rerouted.stranded THEN rerouted
                             ELSE [rerouted EXCEPT !.distance_along_edge = 0],
                   !.target_nodes = tn2,
                   !.events = Append(@, Arrival(a, st.agent, rerouted, tn2, FALSE)),
                   !.done = rerouted.stranded]

\* "If target is not at capacity"
target_free(a, st) ==
    [st EXCEPT !.agent.evacuated = TRUE,
               !.events = Append(@, Arrival(a, st.agent, st.agent, st.target_nodes, TRUE)),
               !.done = TRUE]

\* The body of the while loop once the agent has been moved to the next node
node_reached(a, st) ==
    IF st.agent.route_index = Len(st.agent.route) - 1
    THEN IF target_at_capacity(get_cell_list_contents(a, st.agent.pos))
         THEN target_full(a, st)
         ELSE target_free(a, st)
    ELSE [st EXCEPT !.agent.distance_along_edge = 0]

\* The loop without "self.route_index += 1"
loop_iteration_no_advance(a, st) ==
    IF ~next_node_exists(st.agent)
    THEN [st EXCEPT !.error = "IndexError", !.done = TRUE]
    ELSE IF st.distance_to_travel < distance_to_next_node(st.agent)
    THEN [st EXCEPT !.agent.distance_along_edge = @ + st.distance_to_travel,
                    !.done = TRUE]
    ELSE node_reached(a,
            [st EXCEPT !.distance_to_travel = @ - distance_to_next_node(st.agent),
                       !.agent.pos = st.agent.route[st.agent.route_index + 1]])

\* The loop without "self.model.grid.move_agent"
loop_iteration_no_move(a, st) ==
    IF ~next_node_exists(st.agent)
    THEN [st EXCEPT !.error = "IndexError", !.done = TRUE]
    ELSE IF st.distance_to_travel < distance_to_next_node(st.agent)
    THEN [st EXCEPT !.agent.distance_along_edge = @ + st.distance_to_travel,
                    !.done = TRUE]
    ELSE node_reached(a,
            [st EXCEPT !.distance_to_travel = @ - distance_to_next_node(st.agent),
                       !.agent.route_index = @ + 1])

\* One evaluation of the loop test of EvacuationAgent.step, followed by the loop
\* body, or by the two statements after the loop when the test fails
loop_iteration(a, st) ==
    IF ~next_node_exists(st.agent)
    THEN [st EXCEPT !.error = "IndexError", !.done = TRUE]
    ELSE IF st.distance_to_travel < distance_to_next_node(st.agent)
    THEN [st EXCEPT !.agent.distance_along_edge = @ + st.distance_to_travel,
                    !.done = TRUE]
    ELSE node_reached(a,
            [st EXCEPT !.distance_to_travel = @ - distance_to_next_node(st.agent),
                       !.agent.route_index = @ + 1,
                       !.agent.pos = st.agent.route[st.agent.route_index + 2]])

\* The while loop of EvacuationAgent.step
RECURSIVE step_loop(_, _)
step_loop(a, st) ==
    IF st.done THEN st ELSE step_loop(a, loop_iteration(a, st))

\* The call of EvacuationAgent.step of agent a on reaching its loop; the call is
\* over there for an evacuated or stranded agent
step_entry(a) ==
    IF is_terminal(agents[a])
    THEN StepState(agents[a], target_nodes, 0, "none", <<>>, TRUE)
    ELSE StepState(agents[a], target_nodes, DistancePerStep, "none", <<>>, FALSE)

\* EvacuationAgent.step of agent a
step(a) ==
    IF is_terminal(agents[a])
    THEN StepState(agents[a], target_nodes, 0, "none", <<>>, TRUE)
    ELSE step_loop(a, StepState(agents[a], target_nodes, DistancePerStep, "none",
                                <<>>, FALSE))

\* ------------------------------------------------------------------ model.py
\* The 'evacuated' model reporter: the agents in the cells of set(target_nodes)
evacuated_reporter(ags, tn) ==
    SumOver(Range(tn), [n \in Range(tn) |-> Cardinality({b \in Agents : ags[b].pos = n})])

AllTerminal(ags) == \A b \in Agents : is_terminal(ags[b])

\* A scheduler that does not remember whom it has activated
stepped_forgetful == {}

\* The agents RandomActivation has already activated in the step under way
stepped == IF Len(order) = NumAgents THEN {} ELSE Range(order)

\* The values of model.target_capacity: the attribute is read by
\* EvacuationAgent.step and assigned by none of the sources at hand; it is one
\* positive capacity shared by all targets
Capacities == 1..MaxCapacity

\* No call of step() is under way
NoCall ==
    [agent |-> 0, st |-> StepState(NewAgent, <<>>, 0, "none", <<>>, TRUE),
     iterations |-> 0]

\* The prototype of main.py is not in use
NoProto ==
    [graph |-> 0, target |-> "", pc |-> "none", pos |-> "", route |-> <<>>,
     depth |-> 0, exception |-> "none"]

\* The agents are alike and are activated in random order, so the start nodes are
\* taken in the order of model.nodes
Init ==
    /\ G \in DOMAIN Networks
    /\ target_capacity \in Capacities
    /\ max_steps \in {2, MaxSteps}
    /\ start \in {f \in [Agents -> NodeSet(G)] :
                    \A a, b \in Agents : a <= b => get_loc(G, f[a]) <= get_loc(G, f[b])}
    /\ target_nodes = Networks[G].targets
    /\ agents = [a \in Agents |->
                    update_route(place_agent(NewAgent, start[a]), Networks[G].targets)]
    /\ pc = "constructed"
    /\ steps = 0
    /\ model_vars = <<>>
    /\ error = "none"
    /\ order = <<>>
    /\ tick_log = <<>>
    /\ first_terminal = 0
    /\ call = NoCall
    /\ proto = NoProto

\* run(): the collect before the loop
RunBegin ==
    /\ pc = "constructed"
    /\ pc' = "running"
    /\ model_vars' = <<evacuated_reporter(agents, target_nodes)>>
    /\ UNCHANGED <<G, target_capacity, max_steps, start, agents, target_nodes, steps,
                   error, order, tick_log, first_terminal, call, proto>>

\* What follows the call r of agent a's step(): an exception ends run(); the
\* activation of the last agent completes schedule.step(), and with it
\* EvacuationModel.step (the collect) and the test of run()'s loop
Activated(a, r) ==
    /\ agents' = [agents EXCEPT ![a] = r.agent]
    /\ target_nodes' = r.target_nodes
    /\ error' = r.error
    /\ order' = IF stepped = {} THEN <<a>> ELSE Append(order, a)
    /\ tick_log' = (IF stepped = {} THEN <<>> ELSE tick_log) \o r.events
    /\ IF r.error # "none"
       THEN /\ pc' = "failed"
            /\ UNCHANGED <<steps, model_vars, first_terminal>>
       ELSE IF Cardinality(stepped) + 1 = NumAgents
       THEN /\ steps' = steps + 1
            /\ model_vars' = Append(model_vars, evacuated_reporter(agents', target_nodes'))
            /\ first_terminal' =
                 IF first_terminal = 0 /\ AllTerminal(agents')
                 THEN steps + 1 ELSE first_terminal
            /\ pc' = IF evacuated_reporter(agents', target_nodes') = NumAgents
                        \/ steps + 1 = max_steps
                     THEN "done" ELSE "running"
       ELSE /\ pc' = "running"
            /\ UNCHANGED <<steps, model_vars, first_terminal>>

\* One activation by RandomActivation.step: any agent not yet activated in this
\* step may be the next of the shuffled order
AgentStep(a) ==
    /\ pc = "running"
    /\ a \notin stepped
    /\ Activated(a, step(a))
    /\ UNCHANGED <<G, target_capacity, max_steps, start, call, proto>>

Next ==
    \/ RunBegin
    \/ \E a \in Agents : AgentStep(a)

Spec == Init /\ [][Next]_vars

\* ------------------------------------------- step() one loop iteration at a time
\* RandomActivation.step calls the step() of the next agent of the shuffled order
CallBegin(a) ==
    /\ pc = "running"
    /\ call.agent = 0
    /\ a \notin stepped
    /\ call' = [agent |-> a, st |-> step_entry(a), iterations |-> 0]
    /\ UNCHANGED <<G, target_capacity, max_steps, start, agents, target_nodes, pc,
                   steps, model_vars, error, order, tick_log, first_terminal, proto>>

\* The loop test of the call under way and what follows it
LoopIteration ==
    /\ call.agent # 0
    /\ ~call.st.done
    /\ call' = [call EXCEPT !.st = loop_iteration(call.agent, call.st),
                            !.iterations = @ + 1]
    /\ UNCHANGED <<G, target_capacity, max_steps, start, agents, target_nodes, pc,
                   steps, model_vars, error, order, tick_log, first_terminal, proto>>

\* The call under way returns or raises
CallReturn ==
    /\ call.agent # 0
    /\ call.st.done
    /\ Activated(call.agent, call.st)
    /\ call' = NoCall
    /\ UNCHANGED <<G, target_capacity, max_steps, start, proto>>

NextLoop ==
    \/ RunBegin
    \/ \E a \in Agents : CallBegin(a)
    \/ LoopIteration
    \/ CallReturn

\* The calls of a run of fewer steps are those of the first steps of a longer run
InitLoop == Init /\ max_steps = MaxSteps

SpecLoop == InitLoop /\ [][NextLoop]_vars

\* ------------------------------------------------------------------- main.py
\* The prototype's network is a MultiDiGraph: nodes and directed edges (a two-way
\* street is a pair of opposite edges).
\* P -Q -R two-way, and a one-way street from R to S
ProtoGraph1 ==
    [nodes |-> {"P", "Q", "R", "S"},
     arcs  |-> {<<"P", "Q">>, <<"Q", "P">>, <<"Q", "R">>, <<"R", "Q">>, <<"R", "S">>}]

\* Two components, P -Q and R -S
ProtoGraph2 ==
    [nodes |-> {"P", "Q", "R", "S"},
     arcs  |-> {<<"P", "Q">>, <<"Q", "P">>, <<"R", "S">>, <<"S", "R">>}]

\* One-way streets only: P to Q to R
ProtoGraph3 ==
    [nodes |-> {"P", "Q", "R"},
     arcs  |-> {<<"P", "Q">>, <<"Q", "R">>}]

ProtoGraphs == <<ProtoGraph1, ProtoGraph2, ProtoGraph3>>

\* The values of target_node: a node drawn from the graph when the argument is
\* None, else the caller's node id, which need not be a node of the graph ("T")
ProtoTargets(g) == ProtoGraphs[g].nodes \cup {"T"}

\* Directed simple paths from the end of p to t that extend p
RECURSIVE ProtoExtend(_, _, _)
ProtoExtend(g, p, t) ==
    LET last == p[Len(p)]
    IN  IF last = t THEN {p}
        ELSE UNION { ProtoExtend(g, Append(p, n), t) :
                     n \in {m \in ProtoGraphs[g].nodes :
                               m \notin Range(p) /\ <<last, m>> \in ProtoGraphs[g].arcs} }

\* A shortest path that finds one from everywhere
shortest_path_anywhere(g, s, t) == <<s, t>>

\* networkx.shortest_path(G, s, t): a path of the fewest edges; the empty
\* sequence stands for the NetworkXException raised when t is no node of G or
\* cannot be reached from s
shortest_path(g, s, t) ==
    LET ps == IF t \in ProtoGraphs[g].nodes THEN ProtoExtend(g, <<s>>, t) ELSE {}
    IN  IF ps = {} THEN <<>>
        ELSE CHOOSE p \in ps : \A q \in ps : Len(p) <= Len(q)

\* The package model plays no part in the prototype and rests as constructed
package_vars ==
    <<G, target_capacity, max_steps, start, agents, target_nodes, pc, steps,
      model_vars, error, order, tick_log, first_terminal, call>>

\* EvacuationModel.__init__ of main.py: the graph and the target node are set, one
\* agent is about to be placed
InitProto ==
    /\ G = 1
    /\ target_capacity = 1
    /\ max_steps = MaxSteps
    /\ start = [a \in Agents |-> Networks[1].nodes[1]]
    /\ target_nodes = Networks[G].targets
    /\ agents = [a \in Agents |->
                    update_route(place_agent(NewAgent, start[a]), Networks[G].targets)]
    /\ pc = "constructed"
    /\ steps = 0
    /\ model_vars = <<>>
    /\ error = "none"
    /\ order = <<>>
    /\ tick_log = <<>>
    /\ first_terminal = 0
    /\ call = NoCall
    /\ \E g \in DOMAIN ProtoGraphs : \E t \in ProtoTargets(g) :
          proto = [NoProto EXCEPT !.graph = g, !.target = t, !.pc = "constructing"]

\* __init__: self.place_agent(a), then the call a.update_route()
ProtoPlace(n) ==
    /\ proto.pc = "constructing"
    /\ n \in ProtoGraphs[proto.graph].nodes
    /\ proto' = [proto EXCEPT !.pos = n, !.pc = "update_route", !.depth = 1]
    /\ UNCHANGED package_vars

\* update_route: shortest_path returns, and with it every nested call
ProtoFound ==
    /\ proto.pc = "update_route"
    /\ shortest_path(proto.graph, proto.pos, proto.target) # <<>>
    /\ proto' = [proto EXCEPT
                    !.route = shortest_path(proto.graph, proto.pos, proto.target),
                    !.pc = "returned"]
    /\ UNCHANGED package_vars

\* update_route: NetworkXException is caught, the agent is placed on a randomly
\* chosen node n and update_route calls itself
ProtoRetry(n) ==
    /\ proto.pc = "update_route"
    /\ shortest_path(proto.graph, proto.pos, proto.target) = <<>>
    /\ proto.depth < RecursionLimit
    /\ n \in ProtoGraphs[proto.graph].nodes
    /\ proto' = [proto EXCEPT !.pos = n, !.depth = @ + 1]
    /\ UNCHANGED package_vars

\* update_route: as ProtoRetry, but the nested call exceeds the interpreter's
\* recursion limit; RecursionError is no NetworkXException and passes through
\* every except clause on the stack
ProtoRecursionError(n) ==
    /\ proto.pc = "update_route"
    /\ shortest_path(proto.graph, proto.pos, proto.target) = <<>>
    /\ proto.depth = RecursionLimit
    /\ n \in ProtoGraphs[proto.graph].nodes
    /\ proto' = [proto EXCEPT !.pos = n, !.pc = "raised",
                              !.exception = "RecursionError"]
    /\ UNCHANGED package_vars

NextProto ==
    \/ \E n \in {"P", "Q", "R", "S"} : ProtoPlace(n)
    \/ ProtoFound
    \/ \E n \in {"P", "Q", "R", "S"} : ProtoRetry(n)
    \/ \E n \in {"P", "Q", "R", "S"} : ProtoRecursionError(n)

SpecProto == InitProto /\ [][NextProto]_vars
\* ================================================================== claims
Active(a) == ~agents[a].evacuated /\ ~agents[a].stranded

Terminal(a) == agents[a].evacuated \/ agents[a].stranded

ConfiguredTargets == Range(Networks[G].targets)

EvacuatedCount(n) ==
    Cardinality({a \in Agents : agents[a].evacuated /\ agents[a].pos = n})

\* Agent a has completed at least one call of step()
HasStepped(a) == steps >= 1 \/ a \in Range(order)

\* The arrivals of the current (or last) step at node n, in activation order
ArrivalsAt(n) == SelectSeq(tick_log, LAMBDA e : e.node = n)

\* The step under way has ended: completed, or cut short by an exception
StepOver == Len(order) = NumAgents \/ error # "none"

\* The agent activated by the transition, when the transition is an activation
ActivatedNow(a) == order' # order /\ order'[Len(order')] = a

\* C1: in every reachable state, for every node (so for every target), the number
\* of agents evacuated at that node is at most the target capacity.
C1_CapacityBound ==
    \A n \in NodeSet(G) : EvacuatedCount(n) <= target_capacity

\* A target filled to its capacity that has turned an arrival away
C1_Witness ==
    \E n \in ConfiguredTargets :
        /\ EvacuatedCount(n) = target_capacity
        /\ \E i \in DOMAIN tick_log : tick_log[i].node = n /\ ~tick_log[i].admitted

\* C2: once an agent is evacuated or stranded no transition changes any of its
\* fields, and its own later step() calls change neither model.target_nodes nor
\* raise an exception: the agent never becomes active again.
C2_TerminalAbsorbing ==
    [][\A a \in Agents :
         Terminal(a) =>
            /\ agents'[a] = agents[a]
            /\ ActivatedNow(a) => (target_nodes' = target_nodes /\ error' = error)]_vars

\* An evacuated agent and a stranded agent, both terminal since an earlier step,
\* have been activated again
C2_Witness ==
    /\ steps >= 1
    /\ \E a \in stepped :
          agents[a].evacuated /\ \A i \in DOMAIN tick_log : tick_log[i].agent # a
    /\ \E a \in stepped :
          agents[a].stranded /\ \A i \in DOMAIN tick_log : tick_log[i].agent # a

\* C3 (as claimed): an agent rejected at a target that holds as many evacuated
\* agents as the capacity, whose remaining candidates are not empty but all
\* unreachable, ends its step() stranded, and run() goes on without an exception.
C3_UnreachableRerouteStrands ==
    \A i \in DOMAIN tick_log :
        LET e == tick_log[i] IN
        ( /\ ~e.admitted
          /\ e.evacuated_before = target_capacity
          /\ e.candidates # <<>>
          /\ \A t \in Range(e.candidates) : ~Reachable(G, e.node, t) )
        => (agents[e.agent].stranded /\ error = "none")

\* C4 (as claimed): an agent placed on a node from which no configured target can
\* be reached is stranded once it has been stepped, its reroute_count is the one
\* it had before the first route computation, and run() has not failed.
C4_UnreachableStartStrands ==
    \A a \in Agents :
        ( /\ \A t \in ConfiguredTargets : ~Reachable(G, start[a], t)
          /\ HasStepped(a) )
        => /\ agents[a].stranded
           /\ agents[a].reroute_count = InitialRerouteCount
           /\ error = "none"

\* C5 (as claimed): run(steps) ends exactly 5 steps after the first step at which
\* every agent is evacuated or stranded, or after max_steps steps if that comes
\* first.
C5_GracePeriodStop ==
    pc = "done" =>
        steps = IF first_terminal = 0 THEN max_steps
                ELSE Min(first_terminal + 5, max_steps)

C7_AdmittedIffEvacuatedBelowCapacity ==
    \A i \in DOMAIN tick_log :
        tick_log[i].admitted <=> tick_log[i].evacuated_before < target_capacity

\* C8 (as claimed): when several agents arrive at one target in a step and its free
\* capacity (capacity minus the agents evacuated there) is smaller than the number
\* of arrivals, the arrivals activated first, as many as there is free capacity,
\* are evacuated and the later ones are rejected; and no arrival is rejected at a
\* target that admits a later arrival of the same step.
C8_ActivationOrderDecides ==
    StepOver =>
        \A n \in NodeSet(G) :
            LET arr  == ArrivalsAt(n)
                free == target_capacity - arr[1].evacuated_before
            IN  /\ (Len(arr) >= 2 /\ free < Len(arr)) =>
                       \A i \in DOMAIN arr : arr[i].admitted <=> i <= free
                /\ \A i, j \in DOMAIN arr :
                       i < j => ~(~arr[i].admitted /\ arr[j].admitted)

\* C9 (as claimed): every rejection of an arriving agent at a target that holds as
\* many evacuated agents as the capacity raises the agent's reroute_count by
\* exactly one, whatever follows.
C9_RejectionCountsOnce ==
    \A i \in DOMAIN tick_log :
        (~tick_log[i].admitted /\ tick_log[i].evacuated_before = target_capacity) =>
            tick_log[i].reroute_count_after = tick_log[i].reroute_count_before + 1

\* C10: after construction every agent's reroute_count is at least 0 and at most
\* the number of distinct configured targets, and no transition decreases it.
C10_RerouteCountBounds ==
    /\ [](\A a \in Agents :
            /\ 0 <= agents[a].reroute_count
            /\ agents[a].reroute_count <= Cardinality(ConfiguredTargets))
    /\ [][\A a \in Agents : agents'[a].reroute_count >= agents[a].reroute_count]_vars

\* An agent that has been rerouted twice in one step, each time at a target
\* holding as many evacuated agents as the capacity
C10_Witness ==
    \E a \in Agents :
        /\ agents[a].reroute_count >= 2
        /\ \E i, j \in DOMAIN tick_log :
              /\ i < j
              /\ tick_log[i].agent = a /\ ~tick_log[i].admitted
              /\ tick_log[j].agent = a /\ ~tick_log[j].admitted
        /\ \A i \in DOMAIN tick_log :
              (tick_log[i].agent = a /\ ~tick_log[i].admitted) =>
                  /\ tick_log[i].evacuated_before = target_capacity
                  /\ tick_log[i].reroute_count_after = tick_log[i].reroute_count_before + 1

\* C11 (as claimed): the step() of an agent that is rejected only at targets
\* holding as many evacuated agents as the capacity leaves model.target_nodes, the
\* candidate list every agent's update_route reads, as it was.
C11_RejectionLeavesModelTargets ==
    [][\A a \in Agents :
         ( /\ ActivatedNow(a)
           /\ \A i \in DOMAIN tick_log' :
                 (tick_log'[i].agent = a /\ ~tick_log'[i].admitted) =>
                     tick_log'[i].evacuated_before = target_capacity )
         => target_nodes' = target_nodes]_vars

\* The agents whose evacuated flag is set, and those whose stranded flag is set
EvacuatedAgents == {a \in Agents : agents[a].evacuated}

StrandedAgents == {a \in Agents : agents[a].stranded}

\* A step has been completed and its report collected
StepCompleted == steps >= 1 /\ Len(order) = NumAgents /\ error = "none"

\* C12 (as claimed): the 'evacuated' value collected after a step is the number of
\* evacuated agents, and the collected values never decrease.  (No stranded count
\* is collected at all.)
C12_ReportedEvacuated ==
    /\ StepCompleted => model_vars[Len(model_vars)] = Cardinality(EvacuatedAgents)
    /\ \A i, j \in DOMAIN model_vars : i <= j => model_vars[i] <= model_vars[j]

\* C13: no agent is both evacuated and stranded, so the evacuated, the stranded
\* and the active agents partition the agents, whose number never changes.
C13_StatusPartition ==
    /\ DOMAIN agents = Agents
    /\ EvacuatedAgents \cap StrandedAgents = {}
    /\ Cardinality(EvacuatedAgents) + Cardinality(StrandedAgents)
         + Cardinality({a \in Agents : Active(a)}) = NumAgents

\* After a completed step in which an agent was rejected at a full target and
\* stranded, the three statuses are all present
C13_Witness ==
    /\ StepCompleted
    /\ EvacuatedAgents # {}
    /\ \E a \in Agents : Active(a)
    /\ \E i \in DOMAIN tick_log :
          /\ ~tick_log[i].admitted
          /\ tick_log[i].evacuated_before = target_capacity
          /\ agents[tick_log[i].agent].stranded

\* C14 (as claimed): run() has collected exactly one report per completed step
\* and none otherwise, so a finished run in which every agent was evacuated or
\* stranded first after step T holds min(T + 5, max_steps) reports.
C14_OneSnapshotPerStep ==
    /\ pc \in {"running", "done"} => Len(model_vars) = steps
    /\ (pc = "done" /\ first_terminal # 0) =>
           Len(model_vars) = Min(first_terminal + 5, max_steps)

\* The number of step() calls agent a has made: one per completed step, and one
\* more if it has been activated in a step not completed
StepsTaken(a) ==
    steps + IF a \in Range(order) /\ (Len(order) < NumAgents \/ error # "none")
            THEN 1 ELSE 0

\* The length of route p up to its i-th node, each pair of adjacent nodes joined
\* by one edge of the least length among the parallel ones
LengthUpTo(p, i) == PathLength(G, SubSeq(p, 1, i))

\* The last node of route p within distance d of its first node
NodeWithin(p, d) ==
    CHOOSE i \in DOMAIN p :
        /\ LengthUpTo(p, i) <= d
        /\ \A j \in DOMAIN p : LengthUpTo(p, j) <= d => j <= i

\* C15 (as claimed): an agent that still follows its first route, of total length
\* L, and has not been rejected has, after k >= 1 of its steps, advanced exactly
\* min(k * d, L) along the route, d being the distance covered per step: it is on
\* the last route node within that distance, the rest is its distance_along_edge,
\* and it is evacuated exactly when k * d >= L (so a node reached with the budget
\* used up exactly counts as reached).
C15_AdvancesByBudget ==
    \A a \in Agents :
        ( /\ agents[a].reroute_count = 0
          /\ ~agents[a].stranded
          /\ Len(agents[a].route) >= 2
          /\ StepsTaken(a) >= 1 )
        => LET p == agents[a].route
               L == LengthUpTo(p, Len(p))
               D == Min(StepsTaken(a) * DistancePerStep, L)
               i == NodeWithin(p, D)
           IN  /\ agents[a].route_index + 1 = i
               /\ agents[a].pos = p[i]
               /\ Active(a) => agents[a].distance_along_edge = D - LengthUpTo(p, i)
               /\ agents[a].evacuated <=> StepsTaken(a) * DistancePerStep >= L

\* p is a path of the network from s to one of the candidates tn, no longer than
\* any path from s to any candidate, and ends at the first of the candidates at
\* that least distance
NearestCandidatePath(p, s, tn) ==
    /\ p # <<>>
    /\ p[1] = s
    /\ p[Len(p)] \in Range(tn)
    /\ \A i \in 1..(Len(p) - 1) : Adjacent(G, p[i], p[i + 1])
    /\ \A t \in Range(tn) : \A q \in SimplePaths(G, s, t) :
           PathLength(G, p) <= PathLength(G, q)
    /\ \A i, j \in DOMAIN tn :
           ( /\ tn[i] = p[Len(p)]
             /\ Reachable(G, s, tn[j])
             /\ shortest_paths_dijkstra(G, s, tn[j]) = PathLength(G, p) )
           => i <= j

\* C16 (as claimed): every route update_route has stored, called with a non-empty
\* model.target_nodes, is a shortest path from the agent's node to the nearest
\* candidate, the first in the order of target_nodes among equally near ones.
\* The routes looked at are those of construction (reroute_count 0, from the start
\* node, all targets being candidates) and those computed on a rejection (from the
\* rejecting node, with the candidates left).
C16_RouteToNearestCandidate ==
    /\ \A a \in Agents :
           agents[a].reroute_count = 0 =>
               NearestCandidatePath(agents[a].route, start[a], Networks[G].targets)
    /\ \A i \in DOMAIN tick_log :
           (~tick_log[i].admitted /\ tick_log[i].candidates # <<>>) =>
               NearestCandidatePath(tick_log[i].route_after, tick_log[i].node,
                                    tick_log[i].candidates)

\* The step under way has activated nobody yet: the next activation is the first
\* of a new shuffled order
OrderExhausted == Len(order) = 0 \/ Len(order) = NumAgents

\* C17: within a step the activations form a sequence without repetition that
\* grows by one agent at a time; only the activated agent changes; a step is
\* completed (steps grows by one) exactly when the sequence has become a
\* permutation of all agents, and the next step starts a new sequence with any
\* agent.
C17_EachAgentOncePerStep ==
    /\ [](/\ \A i, j \in DOMAIN order : order[i] = order[j] => i = j
          /\ Range(order) \subseteq Agents
          /\ Len(order) = NumAgents => Range(order) = Agents)
    /\ [][\/ order' = order /\ agents' = agents /\ steps' = steps
          \/ \E a \in Agents :
                /\ order' = IF OrderExhausted THEN <<a>> ELSE Append(order, a)
                /\ OrderExhausted \/ a \notin Range(order)
                /\ \A b \in Agents \ {a} : agents'[b] = agents[b]
                /\ steps' = IF Len(order') = NumAgents /\ error' = "none"
                            THEN steps + 1 ELSE steps]_vars

\* A second step has been completed in an order other than that of the agents'
\* creation, an agent evacuated in the first step being activated before an
\* agent still active
C17_Witness ==
    /\ steps = 2
    /\ Len(order) = NumAgents
    /\ Range(order) = Agents
    /\ \E i, j \in DOMAIN order :
          /\ i < j
          /\ order[i] > order[j]
          /\ agents[order[i]].evacuated
          /\ \A k \in DOMAIN tick_log : tick_log[k].agent # order[i]
          /\ Active(order[j])

\* C19 (as claimed): no agent is stranded while some configured target that holds
\* fewer evacuated agents than the capacity can be reached from the node where the
\* agent stands (a stranded agent stays where it was stranded).
C19_StrandedOnlyWithoutSpareTarget ==
    \A a \in StrandedAgents :
        \A t \in ConfiguredTargets :
            Reachable(G, agents[a].pos, t) => EvacuatedCount(t) >= target_capacity

\* C20 (as claimed): between steps every active agent has a next route node,
\* route_index < len(route) - 1, so that no step() fails reading it; agents that
\* start on a target node or whose route computation found no path included.
C20_NextRouteNodeExists ==
    /\ \A a \in Agents : Active(a) => agents[a].route_index < Len(agents[a].route) - 1
    /\ error # "IndexError"

\* The distance an agent covers walking the whole of route p: step() takes the
\* length of each edge from distance_to_next_node
RECURSIVE WalkedLength(_)
WalkedLength(p) ==
    IF Len(p) <= 1 THEN 0
    ELSE get_edge_data_0(G, p[1], p[2]) + WalkedLength(Tail(p))

\* The distance covered on the routes adopted at the first n of the rejections rej,
\* each walked to its end
RECURSIVE WalkedToEnd(_, _)
WalkedToEnd(rej, n) ==
    IF n = 0 THEN 0
    ELSE WalkedLength(rej[n].route_after) + WalkedToEnd(rej, n - 1)

\* The distance agent ag has covered on its route so far
WalkedSoFar(ag) ==
    WalkedLength(SubSeq(ag.route, 1, ag.route_index + 1)) + ag.distance_along_edge

\* C21: when an agent is rejected in a step() and is still active when the call
\* returns, its route is the one computed at its last rejection, starting at the
\* rejecting node, and the distances it covered in the call (the rest of the old
\* route, every route adopted and walked to its end, and the part of the last
\* route counted from route_index 0 and distance_along_edge 0) add up to the
\* distance of one step.
C21_RerouteKeepsBudget ==
    [][\A a \in Agents :
         LET rej == SelectSeq(tick_log', LAMBDA e : e.agent = a /\ ~e.admitted)
         IN  ( /\ ActivatedNow(a)
               /\ Active(a)
               /\ ~agents'[a].evacuated /\ ~agents'[a].stranded
               /\ error' = "none"
               /\ rej # <<>> )
             => /\ agents'[a].route = rej[Len(rej)].route_after
                /\ agents'[a].route[1] = rej[Len(rej)].node
                /\ (WalkedLength(agents[a].route) - WalkedSoFar(agents[a]))
                     + WalkedToEnd(rej, Len(rej) - 1)
                     + WalkedSoFar(agents'[a]) = DistancePerStep]_vars

\* An agent rejected at a full target has gone on along its new route within the
\* same step and rests on an edge of it
C21_Witness ==
    /\ error = "none"
    /\ \E a \in Agents : \E i \in DOMAIN tick_log :
          /\ Active(a)
          /\ tick_log[i].agent = a
          /\ ~tick_log[i].admitted
          /\ tick_log[i].evacuated_before = target_capacity
          /\ agents[a].route = tick_log[i].route_after
          /\ agents[a].route[1] = tick_log[i].node
          /\ agents[a].pos # tick_log[i].node
          /\ 0 < WalkedSoFar(agents[a])
          /\ WalkedSoFar(agents[a]) <= DistancePerStep

\* The rejections of the call under way
RejectionsOfCall == SelectSeq(call.st.events, LAMBDA e : ~e.admitted)

\* The loop tests a call can make when it walks at most one route more than there
\* are configured targets and no route visits a node twice
IterationBound == (Cardinality(ConfiguredTargets) + 1) * Cardinality(NodeSet(G))

\* C22: every call of step() ends (it returns, or raises) after a bounded number
\* of loop iterations: no call makes more reroutes than there are configured
\* targets, and none makes more loop tests than IterationBound, also when
\* zero-length edges are crossed with no distance left to travel.
C22_StepTerminates ==
    /\ Len(RejectionsOfCall) <= Cardinality(ConfiguredTargets)
    /\ call.iterations <= IterationBound
    /\ call.iterations = IterationBound => call.st.done

\* A call of a rerouted agent that has no distance left to travel and is about to
\* cross a zero-length edge
C22_Witness ==
    /\ call.agent # 0
    /\ ~call.st.done
    /\ call.st.distance_to_travel = 0
    /\ call.st.agent.reroute_count >= 1
    /\ next_node_exists(call.st.agent)
    /\ distance_to_next_node(call.st.agent) = 0

\* The nodes of prototype graph g that can be reached from a node of S
RECURSIVE ReachSet(_, _)
ReachSet(g, S) ==
    LET N == S \cup {a[2] : a \in {b \in ProtoGraphs[g].arcs : b[1] \in S}}
    IN  IF N = S THEN S ELSE ReachSet(g, N)

ProtoReachable(g, s, t) == t \in ReachSet(g, {s})

\* No node of the prototype's graph can reach its target node
NoNodeReaches ==
    \A n \in ProtoGraphs[proto.graph].nodes :
        ~ProtoReachable(proto.graph, n, proto.target)

\* C23 (as claimed): the prototype's update_route ends only by returning, the agent
\* standing on a node from which the target can be reached; nothing else stops the
\* retries, so the call never ends when no node can reach the target.
C23_UnboundedRetry ==
    proto.pc \in {"returned", "raised"} =>
        /\ proto.pc = "returned"
        /\ ProtoReachable(proto.graph, proto.pos, proto.target)

\* C23 (amended): update_route has no bound of its own on the retries: it returns
\* only once the agent stands on a node from which the target can be reached, the
\* route leading from there to the target; otherwise the nested calls go on until
\* the interpreter's recursion limit is exceeded and RecursionError ends the call,
\* which is how every call ends when no node can reach the target.
C23_RetryUntilRecursionLimit ==
    /\ proto.depth <= RecursionLimit
    /\ proto.pc = "returned" =>
           /\ ProtoReachable(proto.graph, proto.pos, proto.target)
           /\ proto.route[1] = proto.pos
           /\ proto.route[Len(proto.route)] = proto.target
           /\ \A i \in 1..(Len(proto.route) - 1) :
                  <<proto.route[i], proto.route[i + 1]>> \in ProtoGraphs[proto.graph].arcs
    /\ proto.pc = "raised" =>
           /\ proto.exception = "RecursionError"
           /\ proto.depth = RecursionLimit
    /\ (proto.pc # "none" /\ NoNodeReaches) => proto.pc # "returned"
    /\ proto.pc = "update_route" => proto.exception = "none"

\* update_route has returned after relocating the agent twice, from a node the
\* target cannot be reached from
C23_Witness ==
    /\ proto.pc = "returned"
    /\ proto.depth >= 3
    /\ Len(proto.route) >= 2

\* The part of its route agent ag has passed: the nodes up to route[route_index]
PassedRoute(ag) == SubSeq(ag.route, 1, ag.route_index + 1)

\* C24: the distance an agent has to cover between two nodes when it moves is the
\* length route computation used for them, the least among their parallel edges:
\* the distance an agent travelled on the part of its route it has passed equals
\* the shortest-path length of that part, and an agent under way on an edge has
\* covered less than the length routing counted for that edge.
C24_MovementUsesRoutingLength ==
    \A a \in Agents :
        LET ag == agents[a]
        IN  /\ ag.route # <<>> =>
                 WalkedLength(PassedRoute(ag)) = PathLength(G, PassedRoute(ag))
            /\ (next_node_exists(ag) /\ ag.distance_along_edge > 0) =>
                 ag.distance_along_edge <
                     Weight(G, ag.route[ag.route_index + 1], ag.route[ag.route_index + 2])

\* The rejections of agent a logged in the step under way
RejectionsOf(a) == SelectSeq(tick_log, LAMBDA e : e.agent = a /\ ~e.admitted)

\* C25: between steps, every agent with a non-empty route is at route[route_index]
\* (the sequences of the model count from 1), and an evacuated agent is at the
\* final node of its route; that node was in the target set when the route was
\* computed: the configured targets for the route computed at construction, and
\* the candidates left at the rejection for a route computed on a rejection,
\* which is the route the agent holds after that step.
C25_PositionOnRoute ==
    /\ \A a \in Agents :
          LET ag == agents[a]
          IN  /\ ag.route # <<>> =>
                   /\ ag.route_index + 1 <= Len(ag.route)
                   /\ ag.pos = ag.route[ag.route_index + 1]
              /\ ag.evacuated =>
                   /\ ag.route # <<>>
                   /\ ag.route_index + 1 = Len(ag.route)
                   /\ ag.pos = ag.route[Len(ag.route)]
              /\ (ag.route # <<>> /\ ag.reroute_count = InitialRerouteCount + 1) =>
                   ag.route[Len(ag.route)] \in ConfiguredTargets
              /\ RejectionsOf(a) # <<>> =>
                   ag.route = RejectionsOf(a)[Len(RejectionsOf(a))].route_after
    /\ \A i \in DOMAIN tick_log :
          LET e == tick_log[i]
          IN  (~e.admitted /\ e.candidates # <<>> /\ e.route_after # <<>>) =>
                 e.route_after[Len(e.route_after)] \in Range(e.candidates)

\* An agent rejected at one target has been evacuated at the end of the route
\* computed at the rejection, and another agent is under way past the first node
\* of its route
C25_Witness ==
    /\ \E a \in Agents :
          /\ agents[a].evacuated
          /\ agents[a].reroute_count > InitialRerouteCount + 1
          /\ Len(agents[a].route) >= 2
          /\ agents[a].pos = agents[a].route[Len(agents[a].route)]
    /\ \E b \in Agents :
          /\ Active(b)
          /\ agents[b].route_index >= 1
          /\ agents[b].route_index + 1 < Len(agents[b].route)
====
